---- MODULE Spec2Model ----
(***************************************************************************)
(* The Watcher / Dep / scheduler core of learnVue (an annotated copy of    *)
(* Vue 2) as a state machine.                                              *)
(*                                                                         *)
(* JavaScript is single threaded and run-to-completion, but user code (a   *)
(* watcher's read function, its change callback) runs in the middle of the *)
(* handlers and can re-enter them.  The model therefore keeps an explicit  *)
(* call stack: an environment action (a data write, a tick, new Watcher,  *)
(* teardown, a computed read, a forced update) is possible only when the   *)
(* stack is empty, and while it is not empty the only possible step is the *)
(* continuation of the frame on top.                                       *)
(*                                                                         *)
(* src/vue-src/core/observer/watcher.js, instance/state.js and             *)
(* util/error.js are modelled from the source.  observer/dep.js,           *)
(* observer/scheduler.js and observer/index.js are imported by them but    *)
(* are not among the source files: Dep, the reactive accessors and the     *)
(* scheduler are modelled from spec.md sections 4.1, 4.2, 4.3 and 4.5.     *)
(***************************************************************************)
EXTENDS Integers, Sequences, FiniteSets, TLC

VARIABLES
    ws,          \* the Watcher objects, in creation order (index = handle)
    uid,         \* watcher.js `let uid = 0`
    subs,        \* Dep.subs of every subject
    targetStack, \* the active-watcher stack; its last element is Dep.target
    data,        \* the value stored in every reactive slot
    vmWatchers,  \* vm._watchers
    destroying,  \* vm._isBeingDestroyed
    computed,    \* vm._computedWatchers.k (0: none)
    queue,       \* scheduler: the pending watchers
    has,         \* scheduler: ids currently queued
    circular,    \* scheduler: per-flush counter of every id
    waiting,     \* scheduler: a deferred flush is scheduled
    flushing,    \* scheduler: a flush is running
    index,       \* scheduler: the flush cursor (0-based, as in the source)
    flushes,     \* deferred flush callbacks scheduled and not yet started
    stack,       \* the call stack, innermost frame last
    errorHandler, \* config.errorHandler is set
    inBrowser,   \* util/env inBrowser
    hasConsole,  \* typeof console !== 'undefined'
    production,  \* process.env.NODE_ENV === 'production'
    log,         \* bookkeeping of the current flush (see NoLog)
    ev,          \* what the last step did
    tr,          \* a value graph and the traversal of it (see NoValue)
    em           \* vm._events of one event and the $emit calls in progress

vars == <<ws, uid, subs, targetStack, data, vmWatchers, destroying, computed,
          queue, has, circular, waiting, flushing, index, flushes, stack,
          errorHandler, inBrowser, hasConsole, production, log, ev, tr, em>>

(***************************************************************************)
(* Bounds                                                                  *)
(***************************************************************************)
MaxWatchers == 2
MaxNum == 1
MaxTargets == 2
MaxNodes == 3
MaxCalls == 2
MaxHandlers == 2
MaxEmits == 2

(***************************************************************************)
(* JavaScript values: numbers, NaN, undefined and one object (the nested   *)
(* container b of the data {a: _, b: {c: _}}).                             *)
(***************************************************************************)
Num(n) == [t |-> "num", n |-> n]
NaN == [t |-> "nan", n |-> 0]
Undefined == [t |-> "undef", n |-> 0]
ObjB == [t |-> "obj", n |-> 0]

\* util isObject: obj !== null && typeof obj === 'object'
isObject(v) == v.t = "obj"

\* JavaScript's !==  (NaN !== NaN is true)
StrictNotEqual(x, y) == x # y \/ x.t = "nan"

\* JavaScript truthiness of a value
Truthy(v) == v.t = "obj" \/ (v.t = "num" /\ v.n # 0)

\* JavaScript's + on the values the read functions add (numbers, NaN)
Plus(x, y) == IF x.t = "num" /\ y.t = "num" THEN Num(x.n + y.n) ELSE NaN

(***************************************************************************)
(* Subjects (Dep objects): one per reactive slot a, b, c and the own-shape *)
(* subject of the nested container.                                        *)
(***************************************************************************)
Slots == {"a", "b", "c"}
Subjects == Slots \cup {"ob"}
WritableSlots == {"a", "c"}

\* ev: the operation the last step performed or completed; w: its watcher;
\* reads: the subjects an evaluation read; hit: the subscribers notified;
\* handled: the <<watcher, "get" or "cb">> whose errors were passed to
\* handleError; uncaught: an error left the call stack; threw: the
\* evaluation that returned had caught an error; saved: the active-watcher
\* stack as it was when the evaluation that returned began; reports: what
\* every call of handleError did, in order; warnings: the calls of warn()
NoEv == [op |-> "none", w |-> 0, reads |-> {}, hit |-> {}, caller |-> "none",
         val |-> Undefined, old |-> Undefined, fired |-> FALSE,
         handled |-> {}, uncaught |-> FALSE, threw |-> FALSE, saved |-> << >>,
         reports |-> << >>, warnings |-> {}]

\* log: what is recorded about the calls of update() and run()
\*   inval    active watchers, neither lazy nor sync, whose update() was
\*            called outside a flush since the last flush began
\*   written  those of them whose update() came from a write (Dep.notify)
\*   multi    those of them whose update() was called more than once
\*   batch, batchWritten, batchMulti   inval, written and multi as they were
\*            when the running (or just finished) flush began
\*   enq      the queue as it was when that flush began, before it was sorted
\*   reinval  watchers whose update() was called while the flush was running
\*   ran      the watchers whose run() re-evaluated them in this flush, in order
\*   warned   ids reported as "possible infinite update loop" in this flush
\*   threw    watchers whose read function or callback raised in this flush
NoLog == [inval |-> {}, written |-> {}, multi |-> {},
          batch |-> {}, batchWritten |-> {}, batchMulti |-> {},
          enq |-> << >>, reinval |-> {}, ran |-> << >>, warned |-> {},
          threw |-> {}]

St == [ws |-> ws, uid |-> uid, subs |-> subs, targetStack |-> targetStack,
       data |-> data, vmWatchers |-> vmWatchers, destroying |-> destroying,
       computed |-> computed, queue |-> queue, has |-> has,
       circular |-> circular, waiting |-> waiting, flushing |-> flushing,
       index |-> index, flushes |-> flushes, stack |-> stack,
       errorHandler |-> errorHandler, inBrowser |-> inBrowser,
       hasConsole |-> hasConsole, production |-> production, log |-> log,
       ev |-> NoEv]

Becomes(st) ==
    \E s \in {st} :
        /\ ws' = s.ws
        /\ uid' = s.uid
        /\ subs' = s.subs
        /\ targetStack' = s.targetStack
        /\ data' = s.data
        /\ vmWatchers' = s.vmWatchers
        /\ destroying' = s.destroying
        /\ computed' = s.computed
        /\ queue' = s.queue
        /\ has' = s.has
        /\ circular' = s.circular
        /\ waiting' = s.waiting
        /\ flushing' = s.flushing
        /\ index' = s.index
        /\ flushes' = s.flushes
        /\ stack' = s.stack
        /\ errorHandler' = s.errorHandler
        /\ inBrowser' = s.inBrowser
        /\ hasConsole' = s.hasConsole
        /\ production' = s.production
        /\ log' = s.log
        /\ ev' = s.ev
        /\ UNCHANGED <<tr, em>>

(***************************************************************************)
(* Read functions and change callbacks are user code.  Each is a short     *)
(* program; its instructions run one per step so that the handlers it      *)
(* calls (a reactive read, a reactive write, a computed property) can      *)
(* nest.  use = "set": the value read becomes the result; "add": it is     *)
(* added to the result; "none": it is only traversed.                      *)
(***************************************************************************)
Ins(op, s, use, to) == [op |-> op, s |-> s, use |-> use, to |-> to]

\* "a", "b", "b.c": dot-delimited paths (parsePath); the others: functions
GetterProg(g) ==
    CASE g = "a"    -> << Ins("read", "a", "set", 0) >>
      [] g = "b"    -> << Ins("read", "b", "set", 0) >>
      [] g = "b.c"  -> << Ins("read", "b", "none", 0), Ins("read", "c", "set", 0) >>
      \* function () { return this.a + this.b.c }
      [] g = "sum"  -> << Ins("read", "a", "set", 0), Ins("read", "b", "none", 0),
                          Ins("read", "c", "add", 0) >>
      \* function () { return this.a && this.a + this.b.c }
      [] g = "cond" -> << Ins("read", "a", "set", 0), Ins("jf", "a", "none", 6),
                          Ins("read", "a", "set", 0), Ins("read", "b", "none", 0),
                          Ins("read", "c", "add", 0) >>
      \* function () { return this.k }  (k: the computed property)
      [] g = "k"    -> << Ins("comp", "a", "set", 0) >>
      \* function () { if (this.a) throw new Error(); return this.a }
      [] g = "boom" -> << Ins("read", "a", "set", 0), Ins("throwIf", "a", "none", 0) >>
      \* function () { var v = this.c; if (v) { this.c = 1 - v; this.a }; return v }
      [] g = "reent" -> << Ins("read", "c", "set", 0), Ins("jf", "c", "none", 5),
                           Ins("toggle", "c", "none", 0), Ins("read", "a", "none", 0) >>
      \* function () { this.a; return this.k }
      [] g = "ak"   -> << Ins("read", "a", "none", 0), Ins("comp", "a", "set", 0) >>
      \* function () {}
      [] OTHER      -> << >>

\* What the read function returns on the data d: the function itself,
\* written as an expression.
GetterValue(g, d, kval) ==
    CASE g = "a"    -> d["a"]
      [] g = "b"    -> d["b"]
      [] g = "b.c"  -> d["c"]
      [] g = "sum"  -> Plus(d["a"], d["c"])
      [] g = "cond" -> IF Truthy(d["a"]) THEN Plus(d["a"], d["c"]) ELSE d["a"]
      [] g = "k"    -> kval
      [] g = "boom" -> IF Truthy(d["a"]) THEN Undefined ELSE d["a"]
      [] g = "reent" -> d["c"]
      [] g = "ak"   -> kval
      [] OTHER      -> Undefined

\* "noop": function () {};  "toggleA": function () { this.a = 1 - this.a };
\* "boomCb": function () { throw new Error() }
CbProg(c) ==
    CASE c = "toggleA" -> << Ins("toggle", "a", "none", 0) >>
      [] c = "boomCb"  -> << Ins("throw", "a", "none", 0) >>
      [] OTHER         -> << >>

(***************************************************************************)
(* The call stack                                                          *)
(***************************************************************************)
Frame(k, w) == [k |-> k, w |-> w, pc |-> 1, acc |-> Undefined, old |-> Undefined,
                ret |-> "none", reads |-> {}, list |-> << >>,
                threw |-> FALSE, saved |-> << >>]

Top(st) == st.stack[Len(st.stack)]
Pop(st) == [st EXCEPT !.stack = SubSeq(@, 1, Len(@) - 1)]
Push(st, f) == [st EXCEPT !.stack = Append(@, f)]
SetTop(st, f) == [st EXCEPT !.stack[Len(st.stack)] = f]
WithEv(st, e) == [st EXCEPT !.ev = e]

Range(seq) == {seq[i] : i \in 1..Len(seq)}
RECURSIVE RemoveFirst(_, _)
RemoveFirst(seq, x) ==
    IF seq = << >> THEN << >>
    ELSE IF Head(seq) = x THEN Tail(seq)
    ELSE << Head(seq) >> \o RemoveFirst(Tail(seq), x)

(***************************************************************************)
(* Dep and the active-watcher stack (spec.md 4.1, 4.3)                     *)
(***************************************************************************)
\* Dep.target: the top of the active-watcher stack, 0 when none
DepTarget(st) ==
    IF st.targetStack = << >> THEN 0 ELSE st.targetStack[Len(st.targetStack)]

pushTarget(st, w) == [st EXCEPT !.targetStack = Append(@, w)]

popTarget(st) ==
    IF st.targetStack = << >> THEN st
    ELSE [st EXCEPT !.targetStack = SubSeq(@, 1, Len(@) - 1)]

\* subscribe(watcher): adds the watcher if absent, no-op if present
addSub(st, d, w) ==
    IF w \in Range(st.subs[d]) THEN st
    ELSE [st EXCEPT !.subs[d] = Append(@, w)]

\* unsubscribe(watcher)
removeSub(st, d, w) == [st EXCEPT !.subs[d] = RemoveFirst(@, w)]

(***************************************************************************)
(* Watcher (watcher.js)                                                    *)
(***************************************************************************)
\* a faulty addDep: no newDepIds test, every read is recorded
addDepNoNewIdCheck(st, w, d) ==
    LET s1 == [st EXCEPT !.ws[w].newDepIds = @ \cup {d},
                         !.ws[w].newDeps = Append(@, d)]
    IN  IF d \notin st.ws[w].depIds THEN addSub(s1, d, w) ELSE s1

addDep(st, w, d) ==
    IF d \notin st.ws[w].newDepIds
    THEN LET s1 == [st EXCEPT !.ws[w].newDepIds = @ \cup {d},
                              !.ws[w].newDeps = Append(@, d)]
         IN  IF d \notin st.ws[w].depIds THEN addSub(s1, d, w) ELSE s1
    ELSE st

\* Dep.depend(): if there is an active watcher, it records this subject
depDepend(st, d) ==
    IF DepTarget(st) # 0 THEN addDep(st, DepTarget(st), d) ELSE st

\* the while (i--) loop of cleanupDeps over this.deps, from the last to the first
RECURSIVE cleanupLoop(_, _, _)
cleanupLoop(st, w, i) ==
    IF i = 0 THEN st
    ELSE LET d == st.ws[w].deps[i]
         IN  cleanupLoop(IF d \notin st.ws[w].newDepIds THEN removeSub(st, d, w) ELSE st,
                         w, i - 1)

cleanupDeps(st, w) ==
    LET s1 == cleanupLoop(st, w, Len(st.ws[w].deps))
    IN  [s1 EXCEPT !.ws[w].depIds = s1.ws[w].newDepIds,
                   !.ws[w].newDepIds = {},
                   !.ws[w].deps = s1.ws[w].newDeps,
                   !.ws[w].newDeps = << >>]

\* the read accessor of slot s: registers the slot's subject and, when the
\* stored value is an observed container, the container's own subject
reactiveGetter(st, s) ==
    LET s1 == depDepend(st, s)
    IN  IF isObject(st.data[s]) THEN depDepend(s1, "ob") ELSE s1

SubjectsOfRead(st, s) == IF isObject(st.data[s]) THEN {s, "ob"} ELSE {s}

\* traverse(value): touches every property of the object (here: b.c)
traverse(st, v) == IF isObject(v) THEN reactiveGetter(st, "c") ELSE st

SubjectsOfTraverse(st, v) == IF isObject(v) THEN SubjectsOfRead(st, "c") ELSE {}

\* get(), up to the call of the read function: pushTarget(this), then the
\* getter runs in the new frame
get(st, w, caller) ==
    Push(pushTarget(st, w),
         [Frame("get", w) EXCEPT !.ret = caller, !.saved = st.targetStack])

\* a faulty run: no active test
runNoActiveCheck(st, w) ==
    get([st EXCEPT !.log.ran = IF st.flushing THEN Append(@, w) ELSE @], w, "run")

\* a faulty run: the active test inverted
runInactiveOnly(st, w) ==
    IF ~st.ws[w].active
    THEN get([st EXCEPT !.log.ran = IF st.flushing THEN Append(@, w) ELSE @], w, "run")
    ELSE st

\* run(): if (this.active) { const value = this.get() ...
run(st, w) ==
    IF st.ws[w].active
    THEN get([st EXCEPT !.log.ran = IF st.flushing THEN Append(@, w) ELSE @], w, "run")
    ELSE st

\* the rest of run() once get() has returned value
\* a faulty condition: the isObject(value) disjunct forgotten
shouldFireNoObjectCheck(st, w, value) ==
    StrictNotEqual(value, st.ws[w].value) \/ st.ws[w].deep

shouldFire(st, w, value) ==
    \/ StrictNotEqual(value, st.ws[w].value)
    \/ isObject(value)
    \/ st.ws[w].deep

\* a faulty run: this.value = value forgotten
runAfterGetKeepsValue(st, w, value) ==
    IF shouldFire(st, w, value)
    THEN Push(st, [Frame("cb", w) EXCEPT !.acc = value, !.old = st.ws[w].value])
    ELSE st

runAfterGet(st, w, value) ==
    IF shouldFire(st, w, value)
    THEN LET oldValue == st.ws[w].value
             s1 == [st EXCEPT !.ws[w].value = value]
         IN  Push(s1, [Frame("cb", w) EXCEPT !.acc = value, !.old = oldValue])
    ELSE st

(***************************************************************************)
(* Scheduler (spec.md 4.5)                                                 *)
(***************************************************************************)
\* the circuit-breaker threshold ("a fixed circuit-breaker threshold"),
\* kept small: a flush runs a watcher at most this many times
MAX_UPDATE_COUNT == 2

\* where a watcher enqueued during a flush goes: i = queue.length - 1;
\* while (i > index && queue[i].id > id) i--; splice(i + 1, 0, watcher)
RECURSIVE insertAfter(_, _, _)
insertAfter(st, id, i) ==
    IF i > st.index /\ st.ws[st.queue[i + 1]].id > id
    THEN insertAfter(st, id, i - 1)
    ELSE i

\* a faulty queueWatcher: the waiting flag is not consulted
queueWatcherAlwaysSchedules(st, w) ==
    LET id == st.ws[w].id IN
    IF id \in st.has THEN st
    ELSE LET s1 == [st EXCEPT !.has = @ \cup {id}]
             s2 == IF ~s1.flushing
                   THEN [s1 EXCEPT !.queue = Append(@, w)]
                   ELSE LET i == insertAfter(s1, id, Len(s1.queue) - 1)
                        IN  [s1 EXCEPT !.queue = SubSeq(@, 1, i + 1) \o << w >>
                                                 \o SubSeq(@, i + 2, Len(@))]
         IN  [s2 EXCEPT !.waiting = TRUE, !.flushes = @ + 1]

\* a faulty queueWatcher: during a flush the watcher is appended
queueWatcherAppends(st, w) ==
    LET id == st.ws[w].id IN
    IF id \in st.has THEN st
    ELSE LET s2 == [st EXCEPT !.has = @ \cup {id}, !.queue = Append(@, w)]
         IN  IF ~s2.waiting
             THEN [s2 EXCEPT !.waiting = TRUE, !.flushes = @ + 1]
             ELSE s2

queueWatcher(st, w) ==
    LET id == st.ws[w].id IN
    IF id \in st.has THEN st
    ELSE LET s1 == [st EXCEPT !.has = @ \cup {id}]
             s2 == IF ~s1.flushing
                   THEN [s1 EXCEPT !.queue = Append(@, w)]
                   ELSE LET i == insertAfter(s1, id, Len(s1.queue) - 1)
                        IN  [s1 EXCEPT !.queue = SubSeq(@, 1, i + 1) \o << w >>
                                                 \o SubSeq(@, i + 2, Len(@))]
         IN  IF ~s2.waiting
             THEN [s2 EXCEPT !.waiting = TRUE, !.flushes = @ + 1]
             ELSE s2

\* queue.sort((a, b) => a.id - b.id): a stable insertion sort by id
RECURSIVE insertById(_, _, _)
insertById(st, sorted, w) ==
    IF sorted = << >> THEN << w >>
    ELSE IF st.ws[Head(sorted)].id <= st.ws[w].id
         THEN << Head(sorted) >> \o insertById(st, Tail(sorted), w)
         ELSE << w >> \o sorted

RECURSIVE sortById(_, _)
sortById(st, q) ==
    IF q = << >> THEN << >>
    ELSE insertById(st, sortById(st, SubSeq(q, 1, Len(q) - 1)), q[Len(q)])

IdRange == 0..(MaxWatchers + 1)

resetSchedulerState(st) ==
    [st EXCEPT !.queue = << >>, !.has = {}, !.circular = [i \in IdRange |-> 0],
               !.waiting = FALSE, !.flushing = FALSE, !.index = 0]

\* flushSchedulerQueue, up to its loop
flushSchedulerQueue(st) ==
    Push([st EXCEPT !.flushing = TRUE, !.queue = sortById(st, st.queue), !.index = 0],
         Frame("flush", 0))

(***************************************************************************)
(* Watcher, continued                                                      *)
(***************************************************************************)
\* a faulty update: sync is tested before lazy
updateSyncFirst(st, w) ==
    IF st.ws[w].sync THEN run(st, w)
    ELSE IF st.ws[w].lazy THEN [st EXCEPT !.ws[w].dirty = TRUE]
    ELSE queueWatcher(st, w)

\* a faulty update: the watcher is pushed onto the queue, not handed to
\* queueWatcher
updatePushes(st, w) ==
    IF st.ws[w].lazy THEN [st EXCEPT !.ws[w].dirty = TRUE]
    ELSE IF st.ws[w].sync THEN run(st, w)
    ELSE queueWatcher([st EXCEPT !.queue = Append(@, w)], w)

\* a faulty update: the sync test inverted
updateSyncInverted(st, w) ==
    IF st.ws[w].lazy THEN [st EXCEPT !.ws[w].dirty = TRUE]
    ELSE IF ~st.ws[w].sync THEN run(st, w)
    ELSE queueWatcher(st, w)

\* a faulty update: a lazy watcher is queued as well
updateLazyAlsoQueues(st, w) ==
    IF st.ws[w].lazy THEN queueWatcher([st EXCEPT !.ws[w].dirty = TRUE], w)
    ELSE IF st.ws[w].sync THEN run(st, w)
    ELSE queueWatcher(st, w)

update(st, w) ==
    IF st.ws[w].lazy THEN [st EXCEPT !.ws[w].dirty = TRUE]
    ELSE IF st.ws[w].sync THEN run(st, w)
    ELSE queueWatcher(st, w)

\* evaluate(), up to the call of the read function
evaluate(st, w) == get(st, w, "evaluate")

\* depend(): let i = this.deps.length; while (i--) this.deps[i].depend()
RECURSIVE dependLoop(_, _, _)
dependLoop(st, w, i) ==
    IF i = 0 THEN st ELSE dependLoop(depDepend(st, st.ws[w].deps[i]), w, i - 1)

\* a faulty depend: only the last dependency is handed on
dependLastOnly(st, w) == dependLoop(st, w, IF st.ws[w].deps = << >> THEN 0 ELSE 1)

depend(st, w) == dependLoop(st, w, Len(st.ws[w].deps))

RECURSIVE teardownLoop(_, _, _)
teardownLoop(st, w, i) ==
    IF i = 0 THEN st ELSE teardownLoop(removeSub(st, st.ws[w].deps[i], w), w, i - 1)

\* a faulty teardown: this.active = false forgotten
teardownKeepsActive(st, w) ==
    IF st.ws[w].active
    THEN LET s1 == IF ~st.destroying
                   THEN [st EXCEPT !.vmWatchers = RemoveFirst(@, w)]
                   ELSE st
         IN  teardownLoop(s1, w, Len(s1.ws[w].deps))
    ELSE st

teardown(st, w) ==
    IF st.ws[w].active
    THEN LET s1 == IF ~st.destroying
                   THEN [st EXCEPT !.vmWatchers = RemoveFirst(@, w)]
                   ELSE st
             s2 == teardownLoop(s1, w, Len(s1.ws[w].deps))
         IN  [s2 EXCEPT !.ws[w].active = FALSE]
    ELSE st

\* faulty ids: descending in creation order
NewIdDescending(st) == MaxWatchers + 1 - st.uid

\* this.id = ++uid
NewId(st) == st.uid + 1

\* typeof expOrFn === 'function': the read functions of the programs above;
\* any other expression is a string
isFunction(expOrFn) == expOrFn \in {"sum", "cond", "k", "boom", "reent", "ak", "noop"}

\* util parsePath: bailRE = /[^\w.$]/; a string with any other character
\* is not a path and parsePath returns undefined, else it returns the
\* function that walks the segments
bailRE(path) == path \in {"a-b", "b c"}

parsePath(path) == IF bailRE(path) THEN "undefined" ELSE path

\* the constructor, "parse expression for getter"
getterOf(expOrFn) ==
    IF isFunction(expOrFn) THEN expOrFn
    ELSE IF parsePath(expOrFn) = "undefined" THEN "noop"
    ELSE parsePath(expOrFn)

\* process.env.NODE_ENV !== 'production' && warn('Failed watching path: ...')
warnIfNoPath(st, expOrFn) ==
    IF ~isFunction(expOrFn) /\ parsePath(expOrFn) = "undefined" /\ ~st.production
    THEN [st EXCEPT !.ev.warnings = @ \cup {<<"Failed watching path", expOrFn>>}]
    ELSE st

\* a faulty constructor: this.value = this.get() for a lazy watcher as well
constructorEager(st, t) ==
    LET h == Len(st.ws) + 1
        w == [id |-> NewId(st), deep |-> t.deep, user |-> t.user, lazy |-> t.lazy,
              sync |-> t.sync, active |-> TRUE, dirty |-> t.lazy,
              deps |-> << >>, newDeps |-> << >>, depIds |-> {}, newDepIds |-> {},
              getter |-> getterOf(t.getter), cb |-> t.cb, value |-> Undefined]
        s1 == [warnIfNoPath(st, t.getter)
                 EXCEPT !.vmWatchers = Append(@, h), !.ws = Append(@, w),
                        !.uid = @ + 1]
    IN  get(s1, h, "ctor")

\* a faulty constructor: what parsePath returned is kept as the getter
constructorNoFallback(st, t) ==
    LET h == Len(st.ws) + 1
        w == [id |-> NewId(st), deep |-> t.deep, user |-> t.user, lazy |-> t.lazy,
              sync |-> t.sync, active |-> TRUE, dirty |-> t.lazy,
              deps |-> << >>, newDeps |-> << >>, depIds |-> {}, newDepIds |-> {},
              getter |-> IF isFunction(t.getter) THEN t.getter ELSE parsePath(t.getter),
              cb |-> t.cb, value |-> Undefined]
        s1 == [warnIfNoPath(st, t.getter)
                 EXCEPT !.vmWatchers = Append(@, h), !.ws = Append(@, w),
                        !.uid = @ + 1]
    IN  IF t.lazy THEN s1 ELSE get(s1, h, "ctor")

\* new Watcher(vm, expOrFn, cb, options); t: the arguments
constructor(st, t) ==
    LET h == Len(st.ws) + 1
        w == [id |-> NewId(st), deep |-> t.deep, user |-> t.user, lazy |-> t.lazy,
              sync |-> t.sync, active |-> TRUE, dirty |-> t.lazy,
              deps |-> << >>, newDeps |-> << >>, depIds |-> {}, newDepIds |-> {},
              getter |-> getterOf(t.getter), cb |-> t.cb, value |-> Undefined]
        s1 == [warnIfNoPath(st, t.getter)
                 EXCEPT !.vmWatchers = Append(@, h), !.ws = Append(@, w),
                        !.uid = @ + 1]
    IN  IF t.lazy THEN s1 ELSE get(s1, h, "ctor")

(***************************************************************************)
(* The reactive accessors, Dep.notify and the computed getter              *)
(***************************************************************************)
\* the write accessor of slot s: no-op when the value is unchanged (NaN
\* counts as unchanged when both are NaN), else store and notify();
\* notify() iterates a snapshot of the subscribers
reactiveSetter(st, s, v) ==
    IF v = st.data[s]
    THEN st
    ELSE Push([st EXCEPT !.data[s] = v],
              [Frame("notify", 0) EXCEPT !.list = st.subs[s], !.reads = {s}])

\* bookkeeping of a call of update() (how: "write" or "force")
noteUpdate(st, w, how) ==
    IF st.ws[w].lazy \/ st.ws[w].sync \/ ~st.ws[w].active THEN st
    ELSE IF st.flushing THEN [st EXCEPT !.log.reinval = @ \cup {w}]
    ELSE [st EXCEPT !.log.inval = @ \cup {w},
                    !.log.written = IF how = "write" THEN @ \cup {w} ELSE @,
                    !.log.multi = IF w \in st.log.inval THEN @ \cup {w} ELSE @]

Prog(st, f) ==
    IF f.k = "get" THEN GetterProg(st.ws[f.w].getter) ELSE CbProg(st.ws[f.w].cb)

SetAcc(f, use, v) ==
    CASE use = "set" -> [f EXCEPT !.acc = v]
      [] use = "add" -> [f EXCEPT !.acc = Plus(@, v)]
      [] OTHER       -> f

\* a call made by user code returns v to the frame that made it
returnValue(st, v, inherited) ==
    IF st.stack = << >> THEN st
    ELSE LET f == Top(st)
             ins == Prog(st, f)[f.pc]
         IN  SetTop(st, [SetAcc(f, ins.use, v) EXCEPT !.pc = @ + 1,
                                                     !.reads = @ \cup inherited])

\* computedGetter, entered: const watcher = this._computedWatchers[key]
computedGetter(st) ==
    IF st.computed = 0 THEN returnValue(st, Undefined, {})
    ELSE Push(st, Frame("computed", st.computed))

\* computedGetter: if (watcher.dirty) watcher.evaluate()
computedEvaluate(st, c) == IF st.ws[c].dirty THEN evaluate(st, c) ELSE st

\* computedGetter: if (Dep.target) watcher.depend(); return watcher.value
computedReturn(st, c) ==
    LET s1 == IF DepTarget(st) # 0 THEN depend(st, c) ELSE st
        inherited == IF DepTarget(st) # 0 THEN Range(st.ws[c].deps) ELSE {}
    IN  returnValue(Pop(s1), st.ws[c].value, inherited)

Toggle(v) == IF v = Num(0) THEN Num(1) ELSE Num(0)

\* handleError: config.errorHandler is called if set; else the error is
\* logged (console.error) in a browser and thrown again elsewhere
handleErrorReturns(st) == st.errorHandler \/ (st.inBrowser /\ st.hasConsole)

Report(how, err, vm, info) == [how |-> how, err |-> err, vm |-> vm, info |-> info]

\* a faulty handleError: the browser is tested before config.errorHandler
handleErrorBrowserFirst(st, err, vm, info) ==
    IF st.inBrowser /\ st.hasConsole
    THEN [st EXCEPT !.ev.reports = Append(@, Report("console.error", err, vm, info))]
    ELSE IF st.errorHandler
    THEN [st EXCEPT !.ev.reports = Append(@, Report("errorHandler", err, vm, info))]
    ELSE [st EXCEPT !.ev.reports = Append(@, Report("throw", err, vm, info))]

\* handleError(err, vm, info): what it does with the error (the warning of
\* the development build aside)
handleError(st, err, vm, info) ==
    IF st.errorHandler
    THEN [st EXCEPT !.ev.reports = Append(@, Report("errorHandler", err, vm, info))]
    ELSE IF st.inBrowser /\ st.hasConsole
    THEN [st EXCEPT !.ev.reports = Append(@, Report("console.error", err, vm, info))]
    ELSE [st EXCEPT !.ev.reports = Append(@, Report("throw", err, vm, info))]

\* the last call of handleError threw the error again
Rethrown(st) == st.ev.reports[Len(st.ev.reports)].how = "throw"

\* a faulty catch: the error is reported and thrown again
RECURSIVE raiseRethrows(_)
raiseRethrows(st) ==
    IF st.stack = << >> THEN [st EXCEPT !.ev.uncaught = TRUE]
    ELSE LET f == Top(st) IN
         IF f.k \in {"get", "cb"} /\ st.ws[f.w].user
         THEN raiseRethrows(Pop([st EXCEPT !.ev.handled = @ \cup {<<f.w, f.k>>}]))
         ELSE raiseRethrows(Pop(st))

\* An error raised in the frame on top.  The try/catch of get() around
\* this.getter.call and of run() around this.cb.call exist only for a user
\* watcher; every other frame (and the rest of get(): popTarget,
\* cleanupDeps) is abandoned.  With no frame left the error reaches the
\* caller of the operation.
RECURSIVE raise(_)
raise(st) ==
    IF st.stack = << >> THEN [st EXCEPT !.ev.uncaught = TRUE]
    ELSE LET f == Top(st) IN
         IF f.k \in {"get", "cb"} /\ st.ws[f.w].user
         THEN LET s0 == [st EXCEPT !.ev.handled = @ \cup {<<f.w, f.k>>},
                                   !.log.threw = IF st.flushing THEN @ \cup {f.w}
                                                                ELSE @]
                  s1 == handleError(s0, "Error", "vm", <<f.k, st.ws[f.w].getter>>)
              IN  IF ~Rethrown(s1)
                  THEN SetTop(s1, [f EXCEPT !.pc = Len(Prog(s1, f)) + 1,
                                            !.acc = IF f.k = "get" THEN Undefined ELSE @,
                                            !.threw = TRUE])
                  ELSE raise(Pop(s1))
         ELSE raise(Pop(st))

\* one instruction of a read function or of a change callback
execIns(st, ins) ==
    LET f == Top(st) IN
    CASE ins.op = "read" ->
           SetTop(reactiveGetter(st, ins.s),
                  [SetAcc(f, ins.use, st.data[ins.s])
                     EXCEPT !.pc = @ + 1,
                            !.reads = @ \cup SubjectsOfRead(st, ins.s)])
      [] ins.op = "jf" ->
           SetTop(st, [f EXCEPT !.pc = IF Truthy(f.acc) THEN @ + 1 ELSE ins.to])
      [] ins.op = "comp" -> computedGetter(st)
      [] ins.op = "toggle" ->
           reactiveSetter(SetTop(st, [f EXCEPT !.pc = @ + 1]), ins.s,
                          Toggle(st.data[ins.s]))
      [] ins.op = "throwIf" ->
           IF Truthy(f.acc) THEN raise(st) ELSE SetTop(st, [f EXCEPT !.pc = @ + 1])
      [] ins.op = "throw" -> raise(st)

\* get(), after the read function has returned value: traverse if deep,
\* popTarget(), cleanupDeps(), return to run / evaluate / the constructor
getReturn(st) ==
    LET f == Top(st)
        w == f.w
        value == f.acc
        s1 == IF st.ws[w].deep THEN traverse(st, value) ELSE st
        s2 == Pop(cleanupDeps(popTarget(s1), w))
    IN  CASE f.ret = "run"      -> runAfterGet(s2, w, value)
          [] f.ret = "evaluate" -> [s2 EXCEPT !.ws[w].value = value,
                                              !.ws[w].dirty = FALSE]
          [] OTHER              -> [s2 EXCEPT !.ws[w].value = value]

ReadsOf(st, f) ==
    f.reads \cup (IF st.ws[f.w].deep THEN SubjectsOfTraverse(st, f.acc) ELSE {})

\* a faulty loop body: the circuit breaker trips one run late
flushEntryLateBreaker(st) ==
    LET w == st.queue[st.index + 1]
        id == st.ws[w].id
        s1 == [st EXCEPT !.has = @ \ {id}, !.circular[id] = @ + 1]
        s2 == SetTop(s1, [Top(s1) EXCEPT !.pc = 2])
    IN  IF s1.circular[id] > MAX_UPDATE_COUNT + 1
        THEN [s2 EXCEPT !.log.warned = @ \cup {id}]
        ELSE run(s2, w)

\* one turn of the loop of flushSchedulerQueue
flushEntry(st) ==
    LET w == st.queue[st.index + 1]
        id == st.ws[w].id
        s1 == [st EXCEPT !.has = @ \ {id}, !.circular[id] = @ + 1]
        s2 == SetTop(s1, [Top(s1) EXCEPT !.pc = 2])
    IN  IF s1.circular[id] > MAX_UPDATE_COUNT
        THEN [s2 EXCEPT !.log.warned = @ \cup {id}]
        ELSE run(s2, w)

(***************************************************************************)
(* Steps of the running call stack                                         *)
(***************************************************************************)
Ev(op, w) == [NoEv EXCEPT !.op = op, !.w = w]

\* the step was op on w; what raise() recorded in ev is kept
Did(st, op, w) == [st EXCEPT !.ev.op = op, !.ev.w = w]

GetterStep ==
    /\ stack # << >>
    /\ Top(St).k = "get"
    /\ Top(St).pc <= Len(Prog(St, Top(St)))
    /\ Becomes(Did(execIns(St, Prog(St, Top(St))[Top(St).pc]), "getter", Top(St).w))

GetReturn ==
    /\ stack # << >>
    /\ Top(St).k = "get"
    /\ Top(St).pc > Len(Prog(St, Top(St)))
    /\ LET f == Top(St)
           s1 == getReturn(St)
       IN  Becomes(WithEv(s1,
              [Ev("get", f.w) EXCEPT !.reads = ReadsOf(St, f), !.caller = f.ret,
                                     !.val = f.acc, !.old = ws[f.w].value,
                                     !.fired = Len(s1.stack) = Len(stack),
                                     !.threw = f.threw, !.saved = f.saved]))

CbStep ==
    /\ stack # << >>
    /\ Top(St).k = "cb"
    /\ Top(St).pc <= Len(Prog(St, Top(St)))
    /\ Becomes(Did(execIns(St, Prog(St, Top(St))[Top(St).pc]), "cb", Top(St).w))

CbReturn ==
    /\ stack # << >>
    /\ Top(St).k = "cb"
    /\ Top(St).pc > Len(Prog(St, Top(St)))
    /\ Becomes(WithEv(Pop(St), Ev("cbReturn", Top(St).w)))

\* Dep.notify: for (i...) subs[i].update()
NotifyStep ==
    /\ stack # << >>
    /\ Top(St).k = "notify"
    /\ Top(St).pc <= Len(Top(St).list)
    /\ LET f == Top(St)
           w == f.list[f.pc]
       IN  Becomes(WithEv(update(noteUpdate(SetTop(St, [f EXCEPT !.pc = @ + 1]), w, "write"), w),
                          Ev("update", w)))

NotifyReturn ==
    /\ stack # << >>
    /\ Top(St).k = "notify"
    /\ Top(St).pc > Len(Top(St).list)
    /\ Becomes(WithEv(Pop(St), [Ev("notified", 0) EXCEPT !.hit = Range(Top(St).list),
                                                        !.reads = Top(St).reads]))

ComputedStep ==
    /\ stack # << >>
    /\ Top(St).k = "computed"
    /\ LET f == Top(St) IN
       IF f.pc = 1
       THEN Becomes(WithEv(computedEvaluate(SetTop(St, [f EXCEPT !.pc = 2]), f.w),
                           Ev("computedGetter", f.w)))
       ELSE Becomes(WithEv(computedReturn(St, f.w),
                           [Ev("computedReturn", f.w) EXCEPT !.val = ws[f.w].value]))

FlushStep ==
    /\ stack # << >>
    /\ Top(St).k = "flush"
    /\ Top(St).pc = 1
    /\ index < Len(queue)
    /\ Becomes(WithEv(flushEntry(St), Ev("flushEntry", queue[index + 1])))

FlushNext ==
    /\ stack # << >>
    /\ Top(St).k = "flush"
    /\ Top(St).pc = 2
    /\ Becomes(WithEv(SetTop([St EXCEPT !.index = @ + 1], [Top(St) EXCEPT !.pc = 1]),
                      Ev("flushNext", 0)))

FlushEnd ==
    /\ stack # << >>
    /\ Top(St).k = "flush"
    /\ Top(St).pc = 1
    /\ index >= Len(queue)
    /\ Becomes(WithEv(Pop(resetSchedulerState(St)), Ev("flushEnd", 0)))

\* the steps every population of watchers takes
Step ==
    \/ GetterStep
    \/ GetReturn
    \/ CbReturn
    \/ NotifyStep
    \/ NotifyReturn
    \/ FlushStep
    \/ FlushNext
    \/ FlushEnd

(***************************************************************************)
(* What the scope and its user do between two runs of the call stack       *)
(***************************************************************************)
\* the bookkeeping of a finished flush is dropped when the next operation begins
Fresh ==
    IF flushing THEN St
    ELSE [St EXCEPT !.log = [NoLog EXCEPT !.inval = log.inval,
                                          !.written = log.written,
                                          !.multi = log.multi]]

Values == {Num(n) : n \in 0..MaxNum}

\* this.a = v, this.b.c = v
Write(s, v) ==
    /\ stack = << >>
    /\ IF v = data[s]
       THEN UNCHANGED vars
       ELSE Becomes(WithEv(reactiveSetter(Fresh, s, v), Ev("write", 0)))

\* the deferred callback scheduled by queueWatcher runs flushSchedulerQueue
Tick ==
    /\ stack = << >>
    /\ flushes > 0
    /\ Becomes(WithEv(flushSchedulerQueue(
                          [St EXCEPT !.flushes = @ - 1,
                                     !.log = [NoLog EXCEPT !.batch = log.inval,
                                                           !.batchWritten = log.written,
                                                           !.batchMulti = log.multi,
                                                           !.enq = queue]]),
                      Ev("flushStart", 0)))

Template(getter, cb, opts) ==
    [getter |-> getter, cb |-> cb, deep |-> "deep" \in opts, user |-> "user" \in opts,
     lazy |-> "lazy" \in opts, sync |-> "sync" \in opts]

\* vm.$watch(expOrFn, cb, options), the render watcher, or (lazy) the
\* watcher initComputed creates for the computed property k
TemplateOf(w) ==
    [getter |-> w.getter, cb |-> w.cb, deep |-> w.deep, user |-> w.user,
     lazy |-> w.lazy, sync |-> w.sync]

NewWatcher(t) ==
    /\ stack = << >>
    /\ Len(ws) < MaxWatchers
    /\ \A i \in 1..Len(ws) : TemplateOf(ws[i]) # t
    /\ t.lazy => computed = 0
    /\ LET s1 == constructor(Fresh, t)
           s2 == IF t.lazy THEN [s1 EXCEPT !.computed = Len(ws) + 1] ELSE s1
       IN  Becomes(Did(s2, "new", Len(ws) + 1))

\* unwatchFn(), or the teardown of a watcher by vm.$destroy()
Teardown(w) ==
    /\ stack = << >>
    /\ Becomes(WithEv(teardown(Fresh, w),
                      [Ev("teardown", w) EXCEPT !.fired = ws[w].active]))

\* vm.$destroy() has begun: vm._isBeingDestroyed = true
BeginDestroy ==
    /\ stack = << >>
    /\ ~destroying
    /\ Becomes(WithEv([Fresh EXCEPT !.destroying = TRUE], Ev("destroy", 0)))

\* vm.k read outside of any evaluation
ReadComputed ==
    /\ stack = << >>
    /\ computed # 0
    /\ Becomes(WithEv(computedGetter(Fresh), Ev("readComputed", computed)))

\* watcher.update() called directly (vm.$forceUpdate does so)
ForceUpdate(w) ==
    /\ stack = << >>
    /\ Becomes(WithEv(update(noteUpdate(Fresh, w, "force"), w), Ev("update", w)))

\* the application sets Vue.config.errorHandler or not, in a browser or
\* not, before it creates watchers
Configure(h, b) ==
    /\ stack = << >>
    /\ ws = << >>
    /\ <<h, b>> # <<errorHandler, inBrowser>>
    /\ Becomes(WithEv([St EXCEPT !.errorHandler = h, !.inBrowser = b],
                      Ev("configure", 0)))

\* the application is a development or a production build
SetProduction(p) ==
    /\ stack = << >>
    /\ ws = << >>
    /\ p # production
    /\ Becomes(WithEv([St EXCEPT !.production = p], Ev("configure", 0)))

\* the page runs where console is defined or not (an old browser)
SetConsole(c) ==
    /\ stack = << >>
    /\ ws = << >>
    /\ c # hasConsole
    /\ Becomes(WithEv([St EXCEPT !.hasConsole = c], Ev("configure", 0)))

(***************************************************************************)
(* traverse(val) on its own: val is a graph of containers 1..MaxNodes      *)
(* (root 0: a scalar).  A container is "observed" (it has __ob__),         *)
(* "plain" (an extensible object that observe() did not convert, such as   *)
(* an instance of a class) or "frozen" (not extensible); kids: the         *)
(* containers its properties hold.  The recursion of _traverse is the      *)
(* path, one frame per call that reached its loop; descents counts these   *)
(* calls per container within the current top-level call.                  *)
(***************************************************************************)
Nodes == 1..MaxNodes

Kinds == {"observed", "plain", "frozen"}

NoValue == [built |-> FALSE, kids |-> [n \in Nodes |-> {}],
            kind |-> [n \in Nodes |-> "frozen"], root |-> 0,
            path |-> << >>, seen |-> {}, descents |-> [n \in Nodes |-> 0],
            calls |-> 0, overflow |-> FALSE]

\* the call stack of the engine is finite: a recursion deeper than the
\* number of containers is on a cycle and ends in a RangeError
StackLimit == MaxNodes

watcherVars == <<ws, uid, subs, targetStack, data, vmWatchers, destroying, computed,
                 queue, has, circular, waiting, flushing, index, flushes, stack,
                 errorHandler, inBrowser, hasConsole, production, log, ev>>

\* _traverse(val, seen), up to its loop: a leaf returns; an observed
\* container already seen returns; else the container is descended into
_traverse(t, n) ==
    IF n = 0 \/ t.kind[n] = "frozen" THEN t
    ELSE IF t.kind[n] = "observed" /\ n \in t.seen THEN t
    ELSE IF Len(t.path) >= StackLimit
         THEN [t EXCEPT !.path = << >>, !.overflow = TRUE]
         ELSE [t EXCEPT !.seen = IF t.kind[n] = "observed" THEN @ \cup {n} ELSE @,
                        !.descents[n] = @ + 1,
                        !.path = Append(@, [n |-> n, todo |-> t.kids[n]])]

\* the application builds a value
BuildValue ==
    /\ ~tr.built
    /\ \E kids \in [Nodes -> SUBSET Nodes], kind \in [Nodes -> Kinds], root \in {0, 1} :
          tr' = [NoValue EXCEPT !.built = TRUE, !.kids = kids, !.kind = kind,
                                !.root = root]
    /\ UNCHANGED <<watcherVars, em>>

\* traverse(val): seenObjects.clear(); _traverse(val, seenObjects)
TraverseCall ==
    /\ tr.built
    /\ tr.path = << >>
    /\ ~tr.overflow
    /\ tr.calls < MaxCalls
    /\ tr' = _traverse([tr EXCEPT !.seen = {}, !.calls = @ + 1,
                                  !.descents = [n \in Nodes |-> 0]], tr.root)
    /\ UNCHANGED <<watcherVars, em>>

\* one turn of while (i--) _traverse(val[i], seen), from the last property
\* to the first, or the return of the call
TraverseStep ==
    /\ tr.path # << >>
    /\ LET d == Len(tr.path)
           f == tr.path[d]
       IN  IF f.todo = {}
           THEN tr' = [tr EXCEPT !.path = SubSeq(@, 1, d - 1)]
           ELSE LET c == CHOOSE x \in f.todo : \A y \in f.todo : y <= x
                IN  tr' = _traverse([tr EXCEPT !.path[d].todo = @ \ {c}], c)
    /\ UNCHANGED <<watcherVars, em>>

(***************************************************************************)
(* Events of one vm: $on, $once, $off, $emit for one event name            *)
(* (instance/state.js).  A handler is the function registered, or the      *)
(* wrapper `on` that $once makes around it (once = TRUE; id tells the      *)
(* wrappers apart; fn: on.fn).  frames: the $emit calls in progress, each  *)
(* with the array it iterates and its cursor; invoked: how often the       *)
(* function given to the id-th $once has been called.                      *)
(***************************************************************************)
\* "plain": function () {}
\* "again": function () { if (!done) { done = true; vm.$emit(event) } }
Fns == {"plain", "again"}

Handler(id, isOnce, fn) == [id |-> id, once |-> isOnce, fn |-> fn]

NoEvents == [events |-> << >>, frames |-> << >>,
             invoked |-> [i \in 1..MaxHandlers |-> 0],
             onces |-> 0, emits |-> 0, done |-> FALSE, last |-> "none"]

\* $on(event, fn): (vm._events[event] || (vm._events[event] = [])).push(fn)
on(e, cb) == [e EXCEPT !.events = Append(@, cb)]

\* $once(event, fn): on.fn = fn; vm.$on(event, on)
once(e, fn) ==
    on([e EXCEPT !.onces = @ + 1], Handler(e.onces + 1, TRUE, fn))

\* cb === fn || cb.fn === fn
offMatches(cb, fn) == cb = fn \/ (cb.once /\ ~fn.once /\ cb.fn = fn.fn)

\* $off(event, fn): the while (i--) loop removes the last handler that
\* matches fn; nothing happens when none does
off(e, fn) ==
    LET found == {i \in 1..Len(e.events) : offMatches(e.events[i], fn)}
    IN  IF found = {} THEN e
        ELSE LET i == CHOOSE x \in found : \A y \in found : y <= x
             IN  [e EXCEPT !.events = SubSeq(@, 1, i - 1) \o SubSeq(@, i + 1, Len(@))]

\* $off(event): vm._events[event] = null
offEvent(e) == [e EXCEPT !.events = << >>]

\* $emit(event), up to its loop: cbs = toArray(cbs) when there is more than
\* one handler; the array itself when there is one (its only element is
\* read before any handler runs, l = cbs.length being the loop's bound)
emit(e) ==
    IF e.events # << >>
    THEN [e EXCEPT !.frames = Append(@, [cbs |-> e.events, i |-> 1])]
    ELSE e

\* the function registered is called
apply(e, fn) ==
    IF fn = "again" /\ ~e.done THEN emit([e EXCEPT !.done = TRUE]) ELSE e

\* cbs[i].apply(vm, args): a wrapper of $once first calls vm.$off(event, on),
\* then fn.apply(vm, arguments)
invoke(e, cb) ==
    IF cb.once
    THEN apply([off(e, cb) EXCEPT !.invoked[cb.id] = @ + 1], cb.fn)
    ELSE apply(e, cb.fn)

On(fn) ==
    /\ em.frames = << >>
    /\ Len(em.events) < MaxHandlers
    /\ em' = [on(em, Handler(0, FALSE, fn)) EXCEPT !.last = "on"]
    /\ UNCHANGED <<watcherVars, tr>>

Once(fn) ==
    /\ em.frames = << >>
    /\ Len(em.events) < MaxHandlers
    /\ em.onces < MaxHandlers
    /\ em' = [once(em, fn) EXCEPT !.last = "once"]
    /\ UNCHANGED <<watcherVars, tr>>

Off(fn) ==
    /\ em.frames = << >>
    /\ em' = [off(em, Handler(0, FALSE, fn)) EXCEPT !.last = "off"]
    /\ UNCHANGED <<watcherVars, tr>>

OffEvent ==
    /\ em.frames = << >>
    /\ em.events # << >>
    /\ em' = [offEvent(em) EXCEPT !.last = "offEvent"]
    /\ UNCHANGED <<watcherVars, tr>>

\* vm.$emit(event) called from outside any handler
Emit ==
    /\ em.frames = << >>
    /\ em.emits < MaxEmits
    /\ em' = [emit([em EXCEPT !.emits = @ + 1]) EXCEPT !.last = "emit"]
    /\ UNCHANGED <<watcherVars, tr>>

\* one turn of for (i = 0; i < l; i++) cbs[i].apply(vm, args), or the
\* return of $emit
EmitStep ==
    /\ em.frames # << >>
    /\ LET d == Len(em.frames)
           f == em.frames[d]
       IN  IF f.i > Len(f.cbs)
           THEN em' = [em EXCEPT !.frames = SubSeq(@, 1, d - 1), !.last = "return"]
           ELSE em' = [invoke([em EXCEPT !.frames[d].i = @ + 1], f.cbs[f.i])
                          EXCEPT !.last = "invoke"]
    /\ UNCHANGED <<watcherVars, tr>>

Init ==
    /\ ws = << >>
    /\ uid = 0
    /\ subs = [d \in Subjects |-> << >>]
    /\ targetStack = << >>
    /\ data = [s \in Slots |-> IF s = "b" THEN ObjB ELSE Num(0)]
    /\ vmWatchers = << >>
    /\ destroying = FALSE
    /\ computed = 0
    /\ queue = << >>
    /\ has = {}
    /\ circular = [i \in IdRange |-> 0]
    /\ waiting = FALSE
    /\ flushing = FALSE
    /\ index = 0
    /\ flushes = 0
    /\ stack = << >>
    /\ errorHandler = TRUE
    /\ inBrowser = TRUE
    /\ hasConsole = TRUE
    /\ production = FALSE
    /\ log = NoLog
    /\ ev = NoEv
    /\ tr = NoValue
    /\ em = NoEvents

(***************************************************************************)
(* Specifications: the same machine with different populations of watchers *)
(* (every template at most once) and different operations of the user.     *)
(***************************************************************************)
Writes == \E s \in WritableSlots, v \in Values : Write(s, v)

\* dependency tracking: conditional reads, a deep watcher, a computed
\* property and a watcher that reads it
MenuDeps ==
    { Template("cond", "noop", {"user"}),
      Template("b", "noop", {"user", "deep"}),
      Template("cond", "noop", {"lazy"}),
      Template("k", "noop", {}) }

NextDeps ==
    \/ Step
    \/ ComputedStep
    \/ Writes
    \/ Tick
    \/ \E t \in MenuDeps : NewWatcher(t)
    \/ ReadComputed

SpecDeps == Init /\ [][NextDeps]_vars

\* the same, and watchers are torn down
NextDepsTeardown ==
    \/ NextDeps
    \/ \E w \in 1..Len(ws) : Teardown(w)

SpecDepsTeardown == Init /\ [][NextDepsTeardown]_vars

\* scheduling: queued watchers, one of them re-invalidating itself
MenuSched ==
    { Template("sum", "noop", {"user"}),
      Template("cond", "noop", {"user"}),
      Template("a", "toggleA", {"user"}) }

NextSched ==
    \/ Step
    \/ CbStep
    \/ Writes
    \/ Tick
    \/ \E t \in MenuSched : NewWatcher(t)
    \/ \E w \in 1..Len(ws) : ForceUpdate(w)

SpecSched == Init /\ [][NextSched]_vars

\* a watcher whose callback invalidates it again, beside an ordinary one
MenuLoop ==
    { Template("sum", "noop", {"user"}),
      Template("a", "toggleA", {"user"}) }

NextLoop ==
    \/ Step
    \/ CbStep
    \/ Writes
    \/ Tick
    \/ \E t \in MenuLoop : NewWatcher(t)

SpecLoop == Init /\ [][NextLoop]_vars

\* a call stack that has started runs to completion
FairLoop == SpecLoop /\ WF_vars(Step \/ CbStep)

\* the same watchers, invalidated by hand and torn down
NextSchedTeardown ==
    \/ NextLoop
    \/ \E w \in 1..Len(ws) : ForceUpdate(w)
    \/ \E w \in 1..Len(ws) : Teardown(w)

SpecSchedTeardown == Init /\ [][NextSchedTeardown]_vars

\* a computed property, a watcher that reads it and an ordinary watcher,
\* invalidated by writes and by hand
MenuLazy ==
    { Template("cond", "noop", {"lazy"}),
      Template("k", "noop", {}),
      Template("sum", "noop", {"user"}) }

NextLazy ==
    \/ Step
    \/ ComputedStep
    \/ Writes
    \/ Tick
    \/ \E t \in MenuLazy : NewWatcher(t)
    \/ ReadComputed
    \/ \E w \in 1..Len(ws) : ForceUpdate(w)

SpecLazy == Init /\ [][NextLazy]_vars

\* watchers are torn down, before and after vm.$destroy() has begun
MenuTeardown ==
    { Template("sum", "noop", {"user"}),
      Template("b", "noop", {"user", "deep"}) }

NextTeardown ==
    \/ Step
    \/ Writes
    \/ Tick
    \/ \E t \in MenuTeardown : NewWatcher(t)
    \/ \E w \in 1..Len(ws) : Teardown(w)
    \/ BeginDestroy

SpecTeardown == Init /\ [][NextTeardown]_vars

\* run(): watchers on a scalar, on the nested container and a deep one;
\* a can also become NaN
MenuRun ==
    { Template("sum", "noop", {"user"}),
      Template("b", "noop", {"user"}),
      Template("a", "noop", {"user", "deep"}) }

NextRun ==
    \/ Step
    \/ Writes
    \/ Write("a", NaN)
    \/ Tick
    \/ \E t \in MenuRun : NewWatcher(t)
    \/ \E w \in 1..Len(ws) : ForceUpdate(w)

SpecRun == Init /\ [][NextRun]_vars

\* read functions and callbacks that raise, under every error configuration
MenuErrors ==
    { Template("boom", "noop", {"user"}),
      Template("a", "boomCb", {"user"}),
      Template("sum", "noop", {"user"}) }

NextErrors ==
    \/ Step
    \/ CbStep
    \/ Writes
    \/ Tick
    \/ \E t \in MenuErrors : NewWatcher(t)
    \/ \E h, b \in BOOLEAN : Configure(h, b)

SpecErrors == Init /\ [][NextErrors]_vars

\* the same, with and without a console
NextHandle ==
    \/ NextErrors
    \/ \E c \in BOOLEAN : SetConsole(c)

SpecHandle == Init /\ [][NextHandle]_vars

\* a queued and a sync watcher, invalidated by writes and by hand, and
\* torn down at any time between two operations
MenuUnwatch ==
    { Template("sum", "noop", {"user"}),
      Template("a", "noop", {"user", "sync"}) }

NextUnwatch ==
    \/ Step
    \/ Writes
    \/ Tick
    \/ \E t \in MenuUnwatch : NewWatcher(t)
    \/ \E w \in 1..Len(ws) : ForceUpdate(w)
    \/ \E w \in 1..Len(ws) : Teardown(w)

SpecUnwatch == Init /\ [][NextUnwatch]_vars

\* one watcher of every mode: queued, sync, and lazy with sync set as well
MenuModes ==
    { Template("sum", "noop", {"user"}),
      Template("a", "noop", {"user", "sync"}),
      Template("a", "noop", {"lazy", "sync"}) }

NextModes ==
    \/ Step
    \/ ComputedStep
    \/ Writes
    \/ Tick
    \/ \E t \in MenuModes : NewWatcher(t)
    \/ ReadComputed
    \/ \E w \in 1..Len(ws) : ForceUpdate(w)

SpecModes == Init /\ [][NextModes]_vars

\* read functions that raise, in watchers that have no try/catch: the
\* computed property k = boom, a user watcher of k, and a render-like
\* watcher of boom
MenuNested ==
    { Template("boom", "noop", {"lazy"}),
      Template("k", "noop", {"user"}),
      Template("boom", "noop", {}) }

\* the scope goes on for as long as at most MaxTargets entries are left on
\* the active-watcher stack between two operations
Shallow == Len(targetStack) < MaxTargets

NextNested ==
    \/ Step
    \/ ComputedStep
    \/ Shallow /\ Writes
    \/ Shallow /\ Tick
    \/ Shallow /\ \E t \in MenuNested : NewWatcher(t)
    \/ Shallow /\ ReadComputed

SpecNested == Init /\ [][NextNested]_vars

\* watchers of strings that are not paths, next to a watcher of a path
MenuPaths ==
    { Template("a-b", "noop", {"user"}),
      Template("b c", "noop", {"user", "deep"}),
      Template("a", "noop", {"user"}) }

NextPaths ==
    \/ Step
    \/ Writes
    \/ Tick
    \/ \E t \in MenuPaths : NewWatcher(t)
    \/ \E p \in BOOLEAN : SetProduction(p)

SpecPaths == Init /\ [][NextPaths]_vars

\* a sync watcher whose read function writes what it has read, next to a
\* queued watcher
MenuReentrant ==
    { Template("reent", "noop", {"user", "sync"}),
      Template("sum", "noop", {"user"}) }

NextReentrant ==
    \/ Step
    \/ Writes
    \/ Tick
    \/ \E t \in MenuReentrant : NewWatcher(t)

SpecReentrant == Init /\ [][NextReentrant]_vars

\* deep traversal of every value graph of up to MaxNodes containers
NextTraverse ==
    \/ BuildValue
    \/ TraverseCall
    \/ TraverseStep

SpecTraverse == Init /\ [][NextTraverse]_vars

\* a computed property, a sync watcher that reads one of the computed
\* property's slots before it reads the computed property, and a queued
\* watcher
MenuStale ==
    { Template("cond", "noop", {"lazy"}),
      Template("ak", "noop", {"user", "sync"}),
      Template("sum", "noop", {"user"}) }

NextStale ==
    \/ Step
    \/ ComputedStep
    \/ Writes
    \/ Tick
    \/ \E t \in MenuStale : NewWatcher(t)
    \/ ReadComputed

SpecStale == Init /\ [][NextStale]_vars

\* handlers are registered with $on and $once, removed, and the event is
\* emitted
NextEvents ==
    \/ \E fn \in Fns : On(fn)
    \/ \E fn \in Fns : Once(fn)
    \/ \E fn \in Fns : Off(fn)
    \/ OffEvent
    \/ Emit
    \/ EmitStep

SpecEvents == Init /\ [][NextEvents]_vars

SubscribedExactlyToReads(w, reads) ==
    /\ \A d \in Subjects : (w \in Range(subs[d])) <=> (d \in reads)
    /\ Range(ws[w].deps) = reads

(***************************************************************************)
(* C1.  After every completed evaluation (get) of a watcher w, for every   *)
(* subject d: w is in d's subscriber list if and only if the evaluation    *)
(* read d, and w's dependency list is exactly the set of subjects read.    *)
(* (ev.reads: the subjects the read function touched in the evaluation     *)
(* that has just returned, those inherited from a computed property and    *)
(* those touched by the deep traversal included.)                          *)
(***************************************************************************)
ExactDependencyTracking ==
    ev.op = "get" => SubscribedExactlyToReads(ev.w, ev.reads)

(***************************************************************************)
(* C2.  A watcher appears at most once in the subscriber list of every     *)
(* subject, and a subject appears at most once in a watcher's dependency   *)
(* lists: reading a subject several times within one evaluation gives      *)
(* exactly one subscription.                                               *)
(***************************************************************************)
NoDuplicates(seq) == \A i, j \in 1..Len(seq) : seq[i] = seq[j] => i = j

Count(seq, x) == Cardinality({i \in 1..Len(seq) : seq[i] = x})

IdempotentSubscription ==
    /\ \A d \in Subjects : NoDuplicates(subs[d])
    /\ \A w \in 1..Len(ws) : NoDuplicates(ws[w].deps) /\ NoDuplicates(ws[w].newDeps)
    /\ ev.op = "get" =>
         \A d \in ev.reads : Count(subs[d], ev.w) = 1 /\ Count(ws[ev.w].deps, d) = 1

\* the read function a && a + b.c has read a twice and returned
C2_ReadTwice ==
    /\ ev.op = "get"
    /\ ws[ev.w].getter = "cond"
    /\ Truthy(data["a"])
    /\ Count(subs["a"], ev.w) = 1

(***************************************************************************)
(* C3.  As stated: a watcher (active, neither lazy nor sync) whose         *)
(* update() was called N >= 1 times between two flushes is run exactly     *)
(* once by the next flush.                                                 *)
(***************************************************************************)
BatchDedupAsStated ==
    ev.op = "flushEnd" => \A w \in log.batch : Count(log.ran, w) = 1

\* C3, amended: however many times update() was called, the watcher is in
\* the queue once and one flush is pending; that flush runs it exactly once,
\* provided it is still active when the flush reaches it and update() is not
\* called on it again while the flush is running.
BatchDedup ==
    /\ ~flushing =>
          \A w \in log.inval : Count(queue, w) = 1 /\ waiting /\ flushes = 1
    /\ ev.op = "flushEnd" =>
          \A w \in log.batch :
              (ws[w].active /\ w \notin log.reinval) => Count(log.ran, w) = 1

\* a flush has ended that ran once a watcher invalidated several times
C3_InvalidatedTwiceRunOnce ==
    /\ ev.op = "flushEnd"
    /\ \E w \in log.batchMulti :
          ws[w].active /\ w \notin log.reinval /\ Count(log.ran, w) = 1

(***************************************************************************)
(* C4.  When no watcher is invalidated while the flush is running, the     *)
(* flush runs the enqueued watchers in strictly ascending id order, which  *)
(* is their creation order, whatever the order of the queue was, and it    *)
(* runs all of them.                                                       *)
(***************************************************************************)
Ascending(seq) ==
    \A i, j \in 1..Len(seq) :
        i < j => (ws[seq[i]].id < ws[seq[j]].id /\ seq[i] < seq[j])

FlushOrdering ==
    /\ (flushing /\ log.reinval = {}) => Ascending(log.ran)
    /\ (ev.op = "flushEnd" /\ log.reinval = {}) =>
          /\ Ascending(log.ran)
          /\ Range(log.ran) = {w \in Range(log.enq) : ws[w].active}

\* a flush has ended that ran in creation order watchers enqueued in another order
C4_EnqueuedOutOfOrder ==
    /\ ev.op = "flushEnd"
    /\ log.reinval = {}
    /\ Len(log.ran) >= 2
    /\ \E i, j \in 1..Len(log.enq) : i < j /\ log.enq[i] > log.enq[j]

\* run() has just re-evaluated watcher ev.w: new value ev.val, stored value ev.old
Rerun == ev.op = "get" /\ ev.caller = "run"

\* the change callback of w has been called with (value, oldValue)
CallbackInvoked(w, value, oldValue) ==
    /\ ev.fired
    /\ stack # << >>
    /\ Top(St).k = "cb"
    /\ Top(St).w = w
    /\ Top(St).acc = value
    /\ Top(St).old = oldValue
    /\ ws[w].value = value

(***************************************************************************)
(* C5.  When run() re-evaluates a watcher and the new value is             *)
(* object-shaped, or the watcher is deep, the change callback is invoked   *)
(* with the new and the old value, also when the two are identical.        *)
(***************************************************************************)
DeepEqualityBypass ==
    (Rerun /\ (isObject(ev.val) \/ ws[ev.w].deep)) =>
        CallbackInvoked(ev.w, ev.val, ev.old)

\* a non-deep watcher on the container has fired on an unchanged reference
C5_SameObjectFired ==
    /\ Rerun
    /\ isObject(ev.val)
    /\ ev.val = ev.old
    /\ ~ws[ev.w].deep
    /\ CallbackInvoked(ev.w, ev.val, ev.old)

(***************************************************************************)
(* C6.  When run() re-evaluates a non-deep watcher and the new value is a  *)
(* scalar, the change callback is invoked unless the new value equals the  *)
(* stored one, NaN counting as equal to NaN.                               *)
(***************************************************************************)
SameScalar(x, y) == x = y

ScalarEquality ==
    (Rerun /\ ~ws[ev.w].deep /\ ~isObject(ev.val)) =>
        (ev.fired <=> ~SameScalar(ev.val, ev.old))

(***************************************************************************)
(* C7.  A flush terminates: a watcher whose callback invalidates it again  *)
(* on every run is run at most MAX_UPDATE_COUNT times in the flush, the    *)
(* "possible infinite update loop" warning is reported when the threshold  *)
(* is exceeded, and the flush ends with the scheduler state reset.         *)
(***************************************************************************)
BoundedRuns ==
    /\ \A w \in 1..Len(ws) : Count(log.ran, w) <= MAX_UPDATE_COUNT
    /\ \A i \in IdRange : circular[i] > MAX_UPDATE_COUNT => i \in log.warned
    /\ \A w \in 1..Len(ws) :
          ws[w].id \in log.warned => Count(log.ran, w) = MAX_UPDATE_COUNT

SchedulerReset ==
    ev.op = "flushEnd" =>
        /\ queue = << >>
        /\ has = {}
        /\ circular = [i \in IdRange |-> 0]
        /\ ~flushing
        /\ ~waiting
        /\ index = 0

CycleTermination ==
    /\ [](BoundedRuns /\ SchedulerReset)
    /\ (flushing ~> ev.op = "flushEnd")

\* a flush has ended in which the circuit breaker stopped a watcher
C7_LoopStopped ==
    /\ ev.op = "flushEnd"
    /\ \E w \in 1..Len(ws) :
          /\ ws[w].cb = "toggleA"
          /\ ws[w].id \in log.warned
          /\ Count(log.ran, w) = MAX_UPDATE_COUNT

(***************************************************************************)
(* C8.  update() on a lazy watcher only sets dirty: it starts no           *)
(* evaluation and queues nothing.  The read function of a lazy watcher     *)
(* runs only under evaluate(), which stores the result and clears dirty;   *)
(* nothing else clears dirty.                                              *)
(***************************************************************************)
\* this step called update() on the lazy watcher w
LazyUpdated(w) == ev'.op = "update" /\ ev'.w = w /\ ws[w].lazy

UpdateOnlySetsDirty ==
    \A w \in 1..Len(ws) :
        LazyUpdated(w) =>
            /\ ws' = [ws EXCEPT ![w].dirty = TRUE]
            /\ Len(stack') = Len(stack)
            /\ UNCHANGED <<subs, targetStack, data, queue, has, waiting, flushes,
                           flushing, index, uid, vmWatchers, computed, circular,
                           errorHandler, inBrowser>>

DirtyClearedByEvaluateOnly ==
    \A w \in 1..Len(ws) :
        (ws[w].dirty /\ ~ws'[w].dirty) =>
            (ev'.op = "get" /\ ev'.caller = "evaluate" /\ ev'.w = w)

LazyGetterUnderEvaluateOnly ==
    \A i \in 1..Len(stack) :
        (stack[i].k = "get" /\ ws[stack[i].w].lazy) => stack[i].ret = "evaluate"

EvaluateStores ==
    (ev.op = "get" /\ ev.caller = "evaluate") =>
        (ws[ev.w].value = ev.val /\ ~ws[ev.w].dirty)

LazyMemoization ==
    /\ [](LazyGetterUnderEvaluateOnly /\ EvaluateStores)
    /\ [][UpdateOnlySetsDirty /\ DirtyClearedByEvaluateOnly]_vars

\* the computed watcher, evaluated before, has been invalidated by a write
\* and has not been evaluated since
C8_DirtyAfterWrite ==
    /\ ev.op = "notified"
    /\ \E w \in ev.hit :
          ws[w].lazy /\ ws[w].dirty /\ ws[w].value # Undefined /\ ws[w].deps # << >>

(***************************************************************************)
(* C9.  As stated: for an active watcher, neither lazy nor sync, a write   *)
(* that changes a slot its last evaluation read causes exactly one re-run  *)
(* at the next flush, and the re-run computes the value from the data.     *)
(***************************************************************************)
Eligible(w) == ws[w].active /\ ~ws[w].lazy /\ ~ws[w].sync

ValueIsCurrent(w) ==
    ws[w].value = GetterValue(ws[w].getter, data, Undefined)

\* once the write has notified, the watchers that depend on the written
\* slot are queued and one flush is scheduled
WriteEnqueues ==
    (ev.op = "notified" /\ ~flushing) =>
        \A w \in 1..Len(ws) :
            (Eligible(w) /\ ev.reads \subseteq Range(ws[w].deps)) =>
                /\ w \in ev.hit
                /\ w \in log.written
                /\ Count(queue, w) = 1
                /\ flushes = 1

WriteRerunsOnceAsStated ==
    /\ WriteEnqueues
    /\ ev.op = "flushEnd" =>
          \A w \in log.batchWritten : Count(log.ran, w) = 1 /\ ValueIsCurrent(w)

\* C9, amended: ... exactly one re-run, provided update() is not called on
\* the watcher again while that flush is running.
WriteRerunsOnce ==
    /\ WriteEnqueues
    /\ ev.op = "flushEnd" =>
          \A w \in log.batchWritten :
              (ws[w].active /\ w \notin log.reinval) =>
                  Count(log.ran, w) = 1 /\ ValueIsCurrent(w)

\* the watcher on a + b.c has been re-run once after b.c was written
C9_SumRerun ==
    /\ ev.op = "flushEnd"
    /\ \E w \in log.batchWritten :
          /\ ws[w].getter = "sum"
          /\ w \notin log.reinval
          /\ Count(log.ran, w) = 1
          /\ data["a"] = Num(1)
          /\ data["c"] = Num(1)
          /\ ws[w].value = Num(2)

(***************************************************************************)
(* C10.  teardown() on an active watcher removes it from the subscribers   *)
(* of every subject in its deps (and touches no other subscriber), removes *)
(* it from vm._watchers unless the scope is being destroyed, and sets      *)
(* active to false; on an inactive watcher it changes nothing.             *)
(***************************************************************************)
Without(seq, w) == SelectSeq(seq, LAMBDA x : x # w)

\* this step is teardown() on watcher w
TornDown(w) == ev'.op = "teardown" /\ ev'.w = w

TeardownOfActive(w) ==
    /\ \A d \in Range(ws[w].deps) : w \notin Range(subs'[d])
    /\ \A d \in Subjects :
          subs'[d] = IF d \in Range(ws[w].deps) THEN Without(subs[d], w) ELSE subs[d]
    /\ vmWatchers' = IF destroying THEN vmWatchers ELSE Without(vmWatchers, w)
    /\ ws' = [ws EXCEPT ![w].active = FALSE]
    /\ UNCHANGED <<uid, targetStack, data, destroying, computed, queue, has,
                   circular, waiting, flushing, index, flushes, stack,
                   errorHandler, inBrowser>>

TeardownOfInactive ==
    UNCHANGED <<ws, uid, subs, targetStack, data, vmWatchers, destroying, computed,
                queue, has, circular, waiting, flushing, index, flushes, stack,
                errorHandler, inBrowser>>

TeardownIdempotent ==
    [][\A w \in 1..Len(ws) :
          TornDown(w) => IF ws[w].active THEN TeardownOfActive(w)
                                         ELSE TeardownOfInactive]_vars

\* a watcher with dependencies has been torn down a second time
C10_TornDownTwice ==
    /\ ev.op = "teardown"
    /\ ~ev.fired
    /\ ~ws[ev.w].active
    /\ ws[ev.w].deps # << >>
    /\ \A d \in Subjects : ev.w \notin Range(subs[d])

(***************************************************************************)
(* C11.  One deferred flush is scheduled per empty-to-non-empty transition *)
(* of the queue: the first enqueue schedules it, further enqueues before   *)
(* or during the flush schedule none, and once the flush has reset the     *)
(* scheduler the next enqueue schedules a new one.                         *)
(***************************************************************************)
OneFlushPending ==
    /\ flushes \in {0, 1}
    /\ flushes = 1 <=> (waiting /\ ~flushing)
    /\ (~flushing /\ queue # << >>) => flushes = 1
    /\ (~flushing /\ queue = << >>) => flushes = 0
    /\ ev.op = "flushEnd" => (flushes = 0 /\ ~waiting /\ queue = << >>)

SchedulesOnFirstEnqueueOnly ==
    /\ (~flushing /\ queue = << >> /\ queue' # << >>) => flushes' = flushes + 1
    /\ (queue # << >> /\ Len(queue') > Len(queue)) => flushes' = flushes

FlushCoalescing ==
    /\ []OneFlushPending
    /\ [][SchedulesOnFirstEnqueueOnly]_vars

\* one write has enqueued several watchers and one flush is pending
C11_SeveralEnqueuedOneFlush ==
    /\ ev.op = "notified"
    /\ ~flushing
    /\ Len(queue) >= 2
    /\ Cardinality(ev.hit) >= 2
    /\ flushes = 1

(***************************************************************************)
(* C12.  As stated: an error raised by the read function or the callback   *)
(* of a user watcher is passed to handleError and never aborts the         *)
(* evaluation or the flush: the frame that raised is still on the stack.   *)
(***************************************************************************)
\* the frame on top is the one of watcher w (k: "get" or "cb") that caught
Caught(w, k) ==
    /\ stack # << >>
    /\ Top(St).k = k
    /\ Top(St).w = w
    /\ Top(St).threw

UserErrorNeverAborts ==
    \A h \in ev.handled : ~ev.uncaught /\ Caught(h[1], h[2])

\* C12, amended: ... provided handleError returns, which it does when
\* config.errorHandler is set or in a browser (elsewhere it throws the
\* error again).  Then get() pops the active-watcher stack, reconciles the
\* dependency lists and returns undefined, and the flush runs every
\* remaining watcher.
HandledErrorContained ==
    (ev.handled # {} /\ (errorHandler \/ (inBrowser /\ hasConsole))) =>
        /\ ~ev.uncaught
        /\ Cardinality(ev.handled) = 1
        /\ \A h \in ev.handled : Caught(h[1], h[2]) /\ ws[h[1]].user

GetAfterError ==
    \A w \in 1..Len(ws) :
        (ev'.op = "get" /\ ev'.w = w /\ ev'.threw) =>
            /\ ev'.val = Undefined
            /\ targetStack # << >>
            /\ targetStack' = SubSeq(targetStack, 1, Len(targetStack) - 1)
            /\ ws'[w].deps = ws[w].newDeps
            /\ ws'[w].newDeps = << >>
            /\ \A d \in Subjects : w \in Range(subs'[d]) <=> d \in Range(ws[w].newDeps)

FlushAfterError ==
    (ev.op = "flushEnd" /\ log.threw # {}) =>
        \A w \in log.batch : w \notin log.reinval => Count(log.ran, w) = 1

UserErrorContained ==
    /\ [](HandledErrorContained /\ FlushAfterError)
    /\ [][GetAfterError]_vars

\* a flush has ended in which a read function raised and a watcher created
\* later was run all the same
C12_FlushWentOn ==
    /\ ev.op = "flushEnd"
    /\ \E w1 \in log.threw, w2 \in log.batch :
          /\ ws[w1].getter = "boom"
          /\ ws[w1].value = Undefined
          /\ w1 < w2
          /\ w2 \notin log.threw
          /\ Count(log.ran, w2) = 1

(***************************************************************************)
(* C13.  After teardown() no run() and no update() evaluates the read      *)
(* function of the watcher or invokes its callback: every evaluation       *)
(* started by run() and every callback on the call stack belongs to an     *)
(* active watcher, and a flush does not run a watcher that was torn down   *)
(* after it was enqueued.                                                  *)
(***************************************************************************)
NoRunAfterTeardown ==
    /\ \A i \in 1..Len(stack) :
          ((stack[i].k = "get" /\ stack[i].ret = "run") \/ stack[i].k = "cb")
              => ws[stack[i].w].active
    /\ \A i \in 1..Len(log.ran) : ws[log.ran[i]].active
    /\ (ev.op = "update" /\ ~ws[ev.w].active) =>
          (stack = << >> \/ Top(St).k \notin {"get", "cb"})

\* a flush has ended that skipped a watcher torn down after it was enqueued
C13_EnqueuedThenTornDown ==
    /\ ev.op = "flushEnd"
    /\ \E w \in Range(log.enq) \cap log.batch :
          ~ws[w].active /\ w \notin Range(log.ran)

(***************************************************************************)
(* C14.  update() tests lazy, then sync: a lazy watcher (sync or not) only *)
(* gets dirty set; a non-lazy sync watcher is run at once, its evaluation  *)
(* begun before update() returns, and the queue is left alone; any other   *)
(* watcher is put in the queue (unless its id is there already) and is not *)
(* run.                                                                    *)
(***************************************************************************)
\* this step called update() on watcher w
Updated(w) == ev'.op = "update" /\ ev'.w = w

UpdateOfLazy(w) ==
    /\ ws' = [ws EXCEPT ![w].dirty = TRUE]
    /\ Len(stack') = Len(stack)
    /\ UNCHANGED <<queue, has, waiting, flushes, subs, targetStack>>

UpdateOfSync(w) ==
    /\ UNCHANGED <<queue, has, waiting, flushes, ws>>
    /\ IF ws[w].active
       THEN /\ Len(stack') = Len(stack) + 1
            /\ stack'[Len(stack')].k = "get"
            /\ stack'[Len(stack')].w = w
            /\ stack'[Len(stack')].ret = "run"
            /\ targetStack' = Append(targetStack, w)
       ELSE Len(stack') = Len(stack) /\ UNCHANGED targetStack

UpdateOfQueued(w) ==
    /\ UNCHANGED <<ws, subs, targetStack>>
    /\ Len(stack') = Len(stack)
    /\ ws[w].id \in has'
    /\ Count(queue', w) = 1
    /\ IF ws[w].id \in has
       THEN UNCHANGED <<queue, has>>
       ELSE Len(queue') = Len(queue) + 1 /\ has' = has \cup {ws[w].id}

UpdateDispatch ==
    [][\A w \in 1..Len(ws) :
          Updated(w) => IF ws[w].lazy THEN UpdateOfLazy(w)
                        ELSE IF ws[w].sync THEN UpdateOfSync(w)
                        ELSE UpdateOfQueued(w)]_vars

\* update() has been called on the evaluated lazy watcher that is sync as
\* well: it is dirty and nothing is being evaluated
C14_LazySyncOnlyDirty ==
    /\ ev.op = "update"
    /\ ws[ev.w].lazy
    /\ ws[ev.w].sync
    /\ ws[ev.w].dirty
    /\ ws[ev.w].deps # << >>
    /\ \A i \in 1..Len(stack) : stack[i].k # "get"

(***************************************************************************)
(* C15.  Evaluations are properly nested: the active-watcher stack holds   *)
(* exactly the watchers whose get() is in progress, innermost last, so     *)
(* that when a get() has finished, by returning or by raising, Dep.target  *)
(* and the depth are those from before it was called.                      *)
(***************************************************************************)
\* the watchers whose get() is on the call stack, outermost first
Evaluating ==
    LET gets == SelectSeq(stack, LAMBDA f : f.k = "get")
    IN  [i \in 1..Len(gets) |-> gets[i].w]

NestedEvaluations == targetStack = Evaluating

(***************************************************************************)
(* C16.  A watcher R whose evaluation read the computed property ends that *)
(* evaluation subscribed to every subject in the dependency list of the    *)
(* computed watcher C; depend() adds or removes no subscription of C; and  *)
(* a later write to any of those subjects marks C dirty and invalidates R. *)
(***************************************************************************)
\* R is a watcher that reads the computed property and nothing else
ReadsComputed(R) == ws[R].getter = "k" /\ ~ws[R].lazy /\ computed # 0

InheritsAtReturn ==
    \A R \in 1..Len(ws) :
       (ev'.op = "get" /\ ev'.w = R /\ ReadsComputed(R))
          => /\ Range(ws'[R].deps) = Range(ws'[computed].deps)
             /\ \A d \in Range(ws'[computed].deps) : Count(subs'[d], R) = 1

DependKeepsComputed ==
    ev'.op = "computedReturn"
       => /\ ws'[ev'.w] = ws[ev'.w]
          /\ \A d \in Subjects : Count(subs'[d], ev'.w) = Count(subs[d], ev'.w)

\* Dep.notify of a written subject has returned: C is dirty and R is queued
WriteReachesBoth ==
    \A R \in 1..Len(ws) :
       (/\ ev'.op = "notified" /\ ReadsComputed(R) /\ ws[R].active
        /\ ev'.reads \subseteq Range(ws[R].deps) \cap Range(ws[computed].deps))
          => /\ ws'[computed].dirty
             /\ Count(queue', R) = 1
             /\ ws[R].id \in has'

ComputedDepsInherited ==
    [][InheritsAtReturn /\ DependKeepsComputed /\ WriteReachesBoth]_vars

\* c, which the computed property read only because a was truthy, has been
\* written: its reader R was notified and is queued, and C is dirty
C16_InheritedWriteInvalidates ==
    /\ ev.op = "notified"
    /\ ev.reads = {"c"}
    /\ computed # 0
    /\ ws[computed].dirty
    /\ \E R \in ev.hit : ws[R].getter = "k" /\ ws[R].id \in has

(***************************************************************************)
(* C17.  A watcher identifier appears at most once in the scheduler queue  *)
(* at any time.  As stated (the whole queue) this fails during a flush: an *)
(* entry the cursor has reached stays in the queue until the reset, and    *)
(* its watcher may be enqueued again behind the cursor.  It holds of the   *)
(* entries the flush has not reached yet, before and during a flush, and   *)
(* the set of queued identifiers is exactly theirs.                        *)
(***************************************************************************)
QueueIdsUnique == \A w \in 1..Len(ws) : Count(queue, w) <= 1

\* the number of entries the flush has reached
Reached ==
    IF flushing /\ stack # << >> /\ stack[1].k = "flush" /\ stack[1].pc = 2
    THEN index + 1 ELSE index

PendingEntries == SubSeq(queue, Reached + 1, Len(queue))

PendingIdsUnique ==
    /\ \A v, w \in 1..Len(ws) : ws[v].id = ws[w].id => v = w
    /\ \A w \in 1..Len(ws) : Count(PendingEntries, w) <= 1
    /\ has = {ws[w].id : w \in Range(PendingEntries)}

\* a watcher the flush is running has been enqueued again: it is in the
\* queue twice, once behind the cursor
C17_ReenqueuedDuringFlush ==
    /\ flushing
    /\ \E w \in 1..Len(ws) : Count(queue, w) = 2 /\ Count(PendingEntries, w) = 1

(***************************************************************************)
(* C18.  A watcher enqueued while a flush is running is inserted among the *)
(* entries not yet reached so that these stay sorted by ascending id, and  *)
(* it is run within that same flush rather than deferred.  As stated the   *)
(* last part fails for a watcher the circuit breaker has stopped: its      *)
(* entry is reached in the same flush and is not run.                      *)
(***************************************************************************)
\* update() of a queued-mode watcher during a flush: it is among the
\* entries not yet reached, which are sorted, and no other flush is scheduled
InsertedInOrder ==
    (ev'.op = "update" /\ flushing /\ ~ws[ev'.w].lazy /\ ~ws[ev'.w].sync)
       => /\ Count(PendingEntries', ev'.w) = 1
          /\ Ascending(PendingEntries')
          /\ UNCHANGED <<flushes, waiting, index>>

\* the flush ends only when every enqueued identifier has been reached
NothingDeferred == ev'.op = "flushEnd" => has = {} /\ Reached = Len(queue)

\* the flush reaches the entry of an active watcher enqueued during it
ReachesReenqueued(w) ==
    ev'.op = "flushEntry" /\ ev'.w = w /\ w \in log.reinval /\ ws[w].active

RunBegins(w) ==
    /\ stack'[Len(stack')].k = "get"
    /\ stack'[Len(stack')].w = w
    /\ log'.ran = Append(log.ran, w)

ReenqueuedAlwaysRun ==
    [][/\ InsertedInOrder
       /\ NothingDeferred
       /\ \A w \in 1..Len(ws) : ReachesReenqueued(w) => RunBegins(w)]_vars

ReenqueuedRunUnlessStopped ==
    [][/\ InsertedInOrder
       /\ NothingDeferred
       /\ \A w \in 1..Len(ws) :
             ReachesReenqueued(w) =>
                IF circular[ws[w].id] < MAX_UPDATE_COUNT
                THEN RunBegins(w)
                ELSE /\ ws[w].id \in log'.warned
                     /\ log'.ran = log.ran
                     /\ stack'[Len(stack')].k = "flush"]_vars

\* during a flush a watcher with a smaller id than a pending one was
\* enqueued, and the flush has reached its entry and run it
C18_InsertedBeforePending ==
    /\ ev.op = "getter"
    /\ flushing
    /\ ev.w \in log.reinval
    /\ \E v \in Range(PendingEntries) : ws[v].id > ws[ev.w].id
    /\ Count(log.ran, ev.w) = 2

(***************************************************************************)
(* C19.  When run() fires, the new value is stored before the callback is  *)
(* invoked and the callback receives (new value, value stored before);     *)
(* when run() does not fire, the stored value is left alone; the new value *)
(* stays stored when the callback raises.                                  *)
(***************************************************************************)
\* this step is the end of the re-evaluation of w by run()
RunDecides(w) ==
    /\ stack # << >>
    /\ stack[Len(stack)].k = "get"
    /\ stack[Len(stack)].w = w
    /\ ev'.op = "get" /\ ev'.caller = "run" /\ ev'.w = w

StoredThenCalled(w) ==
    /\ ws'[w].value = ev'.val
    /\ stack'[Len(stack')].k = "cb"
    /\ stack'[Len(stack')].w = w
    /\ stack'[Len(stack')].pc = 1
    /\ stack'[Len(stack')].acc = ev'.val
    /\ stack'[Len(stack')].old = ws[w].value

\* this step is the callback of w raising
CallbackRaises(w) ==
    /\ stack # << >>
    /\ stack[Len(stack)].k = "cb"
    /\ stack[Len(stack)].w = w
    /\ ev'.op = "cb" /\ ev'.w = w /\ <<w, "cb">> \in ev'.handled

ValueStoredBeforeCallback ==
    [][\A w \in 1..Len(ws) :
          /\ RunDecides(w) =>
                IF ev'.fired THEN StoredThenCalled(w)
                ELSE ws'[w].value = ws[w].value /\ Len(stack') = Len(stack) - 1
          /\ CallbackRaises(w) =>
                ws'[w].value = stack[Len(stack)].acc /\ ws'[w] = ws[w]]_vars

\* in a flush the callback of the watcher of a has raised; the value the
\* flush evaluated, not the one from before, is the stored one
C19_StoredThoughCallbackRaised ==
    /\ ev.op = "cb"
    /\ <<ev.w, "cb">> \in ev.handled
    /\ flushing
    /\ ws[ev.w].getter = "a"
    /\ ws[ev.w].value = data["a"]
    /\ ws[ev.w].value = Num(1)

(***************************************************************************)
(* C20.  The constructor appends the watcher to vm._watchers, active.  A   *)
(* lazy watcher is created dirty, with value undefined and no              *)
(* dependencies, and its read function is invoked by evaluate() only.  A   *)
(* non-lazy watcher has its read function invoked once by the constructor  *)
(* and ends the construction subscribed to the subjects that evaluation    *)
(* read.                                                                   *)
(***************************************************************************)
\* this step is new Watcher(...), creating watcher w
Constructed(w) == ev'.op = "new" /\ ev'.w = w /\ Len(ws) = w - 1 /\ Len(ws') = w

Registered(w) ==
    /\ vmWatchers' = Append(vmWatchers, w)
    /\ ws'[w].active
    /\ ws'[w].deps = << >>
    /\ ws'[w].value = Undefined
    /\ \A v \in 1..Len(ws) : ws'[v] = ws[v]
    /\ \A d \in Subjects : Count(subs'[d], w) = 0

CreatedLazy(w) ==
    /\ ws'[w].dirty
    /\ ws'[w].newDeps = << >>
    /\ UNCHANGED <<stack, targetStack, subs>>

CreatedEvaluating(w) ==
    /\ ~ws'[w].dirty
    /\ stack' = Append(stack, [Frame("get", w) EXCEPT !.ret = "ctor",
                                                      !.saved = targetStack])
    /\ targetStack' = Append(targetStack, w)

\* the evaluations begun by a constructor that are in progress
CtorFrames(stk) == {i \in 1..Len(stk) : stk[i].k = "get" /\ stk[i].ret = "ctor"}

\* this step ends the evaluation the constructor of w began
ConstructionEnds(w) ==
    /\ stack # << >>
    /\ stack[Len(stack)].k = "get"
    /\ stack[Len(stack)].w = w
    /\ ev'.op = "get" /\ ev'.caller = "ctor" /\ ev'.w = w

ConstructorContract ==
    [][/\ \A w \in 1..(Len(ws) + 1) :
             Constructed(w) =>
                /\ Registered(w)
                /\ IF ws'[w].lazy THEN CreatedLazy(w) ELSE CreatedEvaluating(w)
       /\ \A w \in 1..Len(ws) :
             ConstructionEnds(w) =>
                /\ CtorFrames(stack') = {}
                /\ ws'[w].value = ev'.val
                /\ Range(ws'[w].deps) = ev'.reads
                /\ \A d \in Subjects :
                      Count(subs'[d], w) = IF d \in ev'.reads THEN 1 ELSE 0
       /\ Cardinality(CtorFrames(stack')) > Cardinality(CtorFrames(stack))
             => ev'.op = "new" /\ ~ws'[ev'.w].lazy
       /\ \A i \in 1..Len(stack') :
             (stack'[i].k = "get" /\ ws'[stack'[i].w].lazy)
                => stack'[i].ret = "evaluate"]_vars

\* a non-lazy watcher has been constructed, subscribed to the two subjects
\* its one evaluation read or more, next to a lazy watcher not evaluated yet
C20_ConstructedBoth ==
    /\ ev.op = "get"
    /\ ev.caller = "ctor"
    /\ Cardinality(ev.reads) >= 2
    /\ \A d \in ev.reads : Count(subs[d], ev.w) = 1
    /\ Count(vmWatchers, ev.w) = 1
    /\ \E c \in 1..Len(ws) :
          ws[c].lazy /\ ws[c].dirty /\ ws[c].deps = << >> /\ ws[c].value = Undefined

(***************************************************************************)
(* C21.  traverse terminates on every value graph, cyclic and shared       *)
(* structures included, and within one top-level call it descends into     *)
(* each observed container at most once.                                   *)
(***************************************************************************)
\* the recursion never outgrows the call stack
TraverseBounded == ~tr.overflow

ObservedDescendedOnce ==
    \A n \in Nodes : tr.kind[n] = "observed" => tr.descents[n] <= 1

TraverseTerminates == TraverseBounded /\ ObservedDescendedOnce

(***************************************************************************)
(* C22.  handleError does exactly one thing with an error: with a global   *)
(* error handler configured it calls the handler with (error, scope,       *)
(* label) and does not raise; with none, it logs the error without raising *)
(* in a browser and raises it again to the caller elsewhere.  As stated    *)
(* this fails in a browser that has no console: there the error is raised  *)
(* again.                                                                  *)
(***************************************************************************)
\* every call of handleError in the last step got the error thrown, the
\* scope and the label of the watcher function that threw it, and there
\* was one call per function that threw
ReportedWithContext ==
    /\ Len(ev.reports) = Cardinality(ev.handled)
    /\ \A i \in 1..Len(ev.reports) :
          /\ ev.reports[i].err = "Error"
          /\ ev.reports[i].vm = "vm"
          /\ \E h \in ev.handled :
                ev.reports[i].info = <<h[2], ws[h[1]].getter>>

\* an error leaves the operation exactly when handleError threw it again
RaisedIffRethrown ==
    ev.reports # << >> =>
        (ev.uncaught <=> \E i \in 1..Len(ev.reports) : ev.reports[i].how = "throw")

Outcome(logs) ==
    IF errorHandler THEN "errorHandler" ELSE IF logs THEN "console.error" ELSE "throw"

ErrorRoutedByBrowser ==
    /\ ReportedWithContext
    /\ RaisedIffRethrown
    /\ \A i \in 1..Len(ev.reports) : ev.reports[i].how = Outcome(inBrowser)

ErrorRouted ==
    /\ ReportedWithContext
    /\ RaisedIffRethrown
    /\ \A i \in 1..Len(ev.reports) :
          ev.reports[i].how = Outcome(inBrowser /\ hasConsole)

\* outside a browser the configured handler was called with the error of a
\* callback, and nothing was raised
C22_HandlerOutsideBrowser ==
    /\ errorHandler
    /\ ~inBrowser
    /\ ~ev.uncaught
    /\ ev.reports = << Report("errorHandler", "Error", "vm", <<"cb", "a">>) >>

(***************************************************************************)
(* C23.  Constructing a watcher from a string that is not a path does not  *)
(* fail: the read function is a no-op, a warning is reported, the watcher  *)
(* is active with value undefined and no dependencies, and no write ever   *)
(* invalidates it.  As stated the warning part fails in a production       *)
(* build, where nothing is reported.                                       *)
(***************************************************************************)
\* a watcher of a no-op read function is active, without value,
\* dependencies or subscriptions, is never notified and never queued
NoopWatcherInert ==
    /\ \A w \in 1..Len(ws) :
          ws[w].getter = "noop" =>
             /\ ws[w].active
             /\ Count(vmWatchers, w) = 1
             /\ ws[w].value = Undefined
             /\ ws[w].deps = << >> /\ ws[w].newDeps = << >>
             /\ \A d \in Subjects : Count(subs[d], w) = 0
             /\ Count(queue, w) = 0
    /\ ev.op = "update" => ws[ev.w].getter # "noop"
    /\ ev.op = "notified" => \A w \in ev.hit : ws[w].getter # "noop"
    /\ ~ev.uncaught

\* this step is new Watcher(vm, expOrFn, ...) and whether expOrFn was a
\* string that is not a path: then and only then the read function is the no-op
NotAPath(w) == ws'[w].getter = "noop"

ConstructedFromString(w) ==
    /\ Constructed(w)
    /\ ws'[w].getter # "undefined"
    /\ stack'[Len(stack')].k = "get" /\ stack'[Len(stack')].w = w

FailedWatchingPath ==
    \E e \in {"a-b", "b c"} : ev'.warnings = {<<"Failed watching path", e>>}

\* the evaluation by the constructor reads nothing and returns undefined
NoopEvaluated(w) ==
    (ConstructionEnds(w) /\ ws[w].getter = "noop") =>
        ev'.val = Undefined /\ ev'.reads = {} /\ ~ev'.threw /\ stack' = << >>

MalformedPathWarns ==
    /\ []NoopWatcherInert
    /\ [][/\ \A w \in 1..(Len(ws) + 1) :
               Constructed(w) =>
                  /\ ConstructedFromString(w)
                  /\ IF NotAPath(w) THEN FailedWatchingPath ELSE ev'.warnings = {}
         /\ \A w \in 1..Len(ws) : NoopEvaluated(w)]_vars

MalformedPathDegrades ==
    /\ []NoopWatcherInert
    /\ [][/\ \A w \in 1..(Len(ws) + 1) :
               Constructed(w) =>
                  /\ ConstructedFromString(w)
                  /\ IF NotAPath(w) /\ ~production THEN FailedWatchingPath
                     ELSE ev'.warnings = {}
         /\ \A w \in 1..Len(ws) : NoopEvaluated(w)]_vars

\* a flush has run the watcher of a after a write, and the watcher made
\* from a string that is not a path was left alone
C23_WriteLeavesNoopAlone ==
    /\ ev.op = "flushEnd"
    /\ log.ran # << >>
    /\ \E w \in 1..Len(ws) :
          /\ ws[w].getter = "noop"
          /\ ws[w].active
          /\ ws[w].value = Undefined
          /\ w \notin Range(log.ran)

(***************************************************************************)
(* C24.  Re-entrant evaluation keeps dependency tracking exact: when the   *)
(* read function of a sync watcher writes a subject it has read, so that   *)
(* get() is entered again on the same watcher, then once the outer get()   *)
(* has returned the watcher is subscribed to exactly the subjects the      *)
(* outer evaluation read.                                                  *)
(***************************************************************************)
\* no get() of watcher w is in progress
NotEvaluating(w) == \A i \in 1..Len(stack) : ~(stack[i].k = "get" /\ stack[i].w = w)

ReentrantTrackingExact ==
    (ev.op = "get" /\ ws[ev.w].sync /\ ws[ev.w].active /\ NotEvaluating(ev.w))
        => SubscribedExactlyToReads(ev.w, ev.reads)


(***************************************************************************)
(* C25.  After teardown a watcher is in no subject's subscriber list in    *)
(* any later state, whatever operations follow: reads of the computed      *)
(* property of a torn-down lazy watcher (evaluate) included.               *)
(***************************************************************************)
Unsubscribed(w) == \A d \in Subjects : w \notin Range(subs[d])

TornDownStaysUnsubscribed ==
    \A w \in 1..Len(ws) : ~ws[w].active => Unsubscribed(w)


(***************************************************************************)
(* C26.  Whenever no evaluation of a watcher is in progress, its working   *)
(* set is empty (newDeps and newDepIds hold nothing) and depIds is exactly *)
(* the set of the subjects in deps: after evaluations that returned and    *)
(* after evaluations whose read function raised an error that left get().  *)
(***************************************************************************)
WorkingSetEmpty(w) ==
    /\ ws[w].newDeps = << >>
    /\ ws[w].newDepIds = {}
    /\ ws[w].depIds = Range(ws[w].deps)

WorkingSetEmptyAtRest ==
    \A w \in 1..Len(ws) : NotEvaluating(w) => WorkingSetEmpty(w)


(***************************************************************************)
(* C27.  Cache coherence of a computed property: whenever a lazy watcher   *)
(* has dirty = false, its stored value is what its read function returns   *)
(* on the current data, and the computed getter never returns a stale      *)
(* value: every write that changes a subject read by the last evaluation   *)
(* sets dirty back to true before the computed property is next read.      *)
(***************************************************************************)
\* the computed getter of watcher w has just returned
ComputedRead(w) == ev.op = "computedReturn" /\ ev.w = w

\* no write is between its assignment and the end of its notification
NoWriteInProgress == \A i \in 1..Len(stack) : stack[i].k # "notify"

CacheCoherent ==
    \A w \in 1..Len(ws) :
        /\ (ws[w].lazy /\ ~ws[w].dirty /\ NoWriteInProgress) => ValueIsCurrent(w)
        /\ ComputedRead(w) => ev.val = GetterValue(ws[w].getter, data, Undefined)


(***************************************************************************)
(* C28.  A handler registered with $once is invoked at most once over any  *)
(* sequence of $emit calls for that event: $emit calls made from another   *)
(* handler of the same event, while an outer $emit is still iterating      *)
(* over its handler list, included.                                        *)
(***************************************************************************)
OnceInvokedAtMostOnce ==
    \A id \in 1..MaxHandlers : em.invoked[id] <= 1

====
